---- MODULE Spec2Model ----
(***************************************************************************)
(* A model of corkscrew's JSON-RPC gateway: the Auth component             *)
(* (corkscrew/auth.py) and the JsonRpc resource (corkscrew/jsonrpc.py).     *)
(* One request is dispatched in one step: every handler of Auth is          *)
(* synchronous and Twisted runs a request callback to completion.           *)
(***************************************************************************)
EXTENDS Integers, Sequences, FiniteSets, TLC

VARIABLES
    now,              \* the wall clock, in whole seconds
    auth,             \* JsonRpc.auth: TRUE when an Auth component exists
    sessions,         \* Auth.config['sessions']: session id -> session
    config,           \* Auth.config without 'sessions': key -> value
    local_methods,    \* JsonRpc._local_methods: name -> bound method
    issued,           \* the session ids drawn so far by _create_session
    pending,          \* the ids of the requests whose Deferred has not fired
    request_global,   \* func_globals['__request__'] of the application's module
    manager,          \* the EventManager: its __events, __handlers and __queue
    listened,         \* the (listener, event) pairs add_listener was called with
    last              \* the last request rendered and what it produced

vars == <<now, auth, sessions, config, local_methods, issued, pending, request_global,
          manager, listened, last>>

----------------------------------------------------------------------------
(* Bounds of the model *)

MaxTime == 2

(* Python values *)

(* None where a string is expected (a cookie value, a session id): the    *)
(* code treats an absent cookie and an empty one alike, and no session id   *)
(* is empty.                                                                *)
None == <<>>

(* JSON values *)
JNull == [t |-> "null"]
JBool(b) == [t |-> "bool", v |-> b]
JStr(s) == [t |-> "str", v |-> s]
JList(l) == [t |-> "list", v |-> l]
(* a twisted Deferred a method returns: no JSON value *)
Deferred == [t |-> "deferred"]

(* exceptions *)
NoExc == [type |-> "none", message |-> ""]
Exc(type, message) == [type |-> type, message |-> message]

AUTH_LEVEL_NONE == 0
AUTH_LEVEL_READONLY == 1
AUTH_LEVEL_NORMAL == 5
AUTH_LEVEL_ADMIN == 10
AUTH_LEVEL_DEFAULT == AUTH_LEVEL_NORMAL

(* hashlib.md5().hexdigest() is 32 hexadecimal characters *)
IdLen == 32

Passwords == {"pw1", "pw2"}
Salts == {"s1", "s2"}
SessionTimeouts == {1}
RequestIds == {1, 7}

----------------------------------------------------------------------------
(* Strings that the code takes apart are sequences of character codes.      *)

Digits == 48..57

RECURSIVE SumUpTo(_, _)
SumUpTo(s, n) == IF n = 0 THEN 0 ELSE s[n] + SumUpTo(s, n - 1)
SumCodes(s) == SumUpTo(s, Len(s))

(* make_checksum: reduce(lambda x,y: x+y, map(ord, session_id)); reduce of  *)
(* an empty sequence without an initial value raises TypeError.             *)
make_checksum(session_id) ==
    IF session_id = <<>> THEN [raised |-> TRUE, value |-> 0]
    ELSE [raised |-> FALSE, value |-> SumCodes(session_id)]

(* str(n) of a natural number *)
RECURSIVE Str(_)
Str(n) == IF n < 10 THEN <<48 + n>> ELSE Str(n \div 10) \o <<48 + (n % 10)>>

RECURSIVE ValueUpTo(_, _)
ValueUpTo(s, n) == IF n = 0 THEN 0 ELSE 10 * ValueUpTo(s, n - 1) + (s[n] - 48)
DigitsValue(s) == ValueUpTo(s, Len(s))

(* int(s) on a string of the model's alphabet: ValueError unless it is a    *)
(* non-empty run of decimal digits.                                         *)
ParseInt(s) ==
    IF s # <<>> /\ \A i \in 1..Len(s) : s[i] \in Digits
    THEN [raised |-> FALSE, value |-> DigitsValue(s)]
    ELSE [raised |-> TRUE, value |-> 0]

(* s[-4:] and s[:-4] *)
(* session_id[-3:] *)
Last3(s) == IF Len(s) <= 3 THEN s ELSE SubSeq(s, Len(s) - 2, Len(s))

Last4(s) == IF Len(s) <= 4 THEN s ELSE SubSeq(s, Len(s) - 3, Len(s))
ButLast4(s) == IF Len(s) <= 4 THEN <<>> ELSE SubSeq(s, 1, Len(s) - 4)

(* get_session_id: the id of a cookie value when its checksum matches,      *)
(* None otherwise (every exception is caught and gives None).               *)
CheckedId(checksum, id, sum) ==
    IF checksum.raised \/ sum.raised THEN None
    ELSE IF checksum.value = sum.value THEN id
    ELSE None

get_session_id(session_id) ==
    IF session_id = None THEN None
    ELSE CheckedId(ParseInt(Last4(session_id)), ButLast4(session_id),
                   make_checksum(ButLast4(session_id)))

(* make_expires with the time subtracted *)
make_expires_back(t, timeout) == timeout - t

(* make_expires without the current time *)
make_expires_from_zero(t, timeout) == timeout

(* make_expires: now, truncated to whole seconds, plus the timeout *)
make_expires(t, timeout) == t + timeout

(* the cookie value without the checksum *)
CookieValueNoChecksum(session_id) == session_id

(* the cookie value _create_session issues *)
CookieValue(session_id) == session_id \o Str(make_checksum(session_id).value)

(* the ids _create_session can draw: md5 hexdigests *)
IdOf(c1, c2) == [i \in 1..IdLen |-> IF i = 1 THEN c1 ELSE IF i = 2 THEN c2 ELSE 48]
SessionIds == {IdOf(97, 98), IdOf(98, 97)}

(* sha1(salt + password).hexdigest(), an injective digest *)
Sha1(salt, password) == <<"sha1", salt, password>>

----------------------------------------------------------------------------
(* The export decorator and the objects whose methods get registered.       *)

(* jsonrpc.AUTH_LEVEL_DEFAULT is None when export's default argument is      *)
(* evaluated: the level '@export()' leaves on a function is None.           *)
LevelNone == -1

NotExported == [json_export |-> FALSE, json_auth_level |-> LevelNone]
(* export(auth_level): '@export(level)', and '@export()' with LevelNone *)
export(auth_level) == [json_export |-> TRUE, json_auth_level |-> auth_level]
(* '@export': auth_level is the function, the level becomes the default *)
ExportBare == export(AUTH_LEVEL_DEFAULT)

Attr(name, minargs, maxargs, marks) ==
    [name |-> name, minargs |-> minargs, maxargs |-> maxargs,
     json_export |-> marks.json_export, json_auth_level |-> marks.json_auth_level]

(* class Auth: what dir() lists of it *)
AuthObject ==
    [class |-> "Auth",
     attrs |-> {Attr("_change_password", 1, 1, NotExported),
                Attr("_clean_sessions", 0, 0, NotExported),
                Attr("_create_session", 1, 2, NotExported),
                Attr("change_password", 2, 2, ExportBare),
                Attr("check_password", 1, 1, NotExported),
                Attr("check_request", 1, 3, NotExported),
                Attr("check_session", 0, 1, export(AUTH_LEVEL_NONE)),
                Attr("delete_session", 0, 0, ExportBare),
                Attr("login", 1, 1, export(AUTH_LEVEL_NONE))}]

(* an object of the embedding application, exported in every form: fetch   *)
(* returns a Deferred, load and parse raise, shutdown returns None, status  *)
(* returns a string                                                         *)
CoreObject ==
    [class |-> "Core",
     attrs |-> {Attr("_debug", 0, 0, ExportBare),
                Attr("fetch", 0, 0, ExportBare),
                Attr("helper", 0, 0, NotExported),
                Attr("info", 0, 0, export(LevelNone)),
                Attr("load", 0, 0, export(AUTH_LEVEL_NONE)),
                Attr("parse", 0, 0, export(AUTH_LEVEL_NONE)),
                Attr("shutdown", 0, 0, export(AUTH_LEVEL_ADMIN)),
                Attr("status", 0, 0, export(AUTH_LEVEL_READONLY))}]

(* str.lower() on the names the model uses *)
Lower(s) == CASE s = "Auth" -> "auth" [] s = "Core" -> "core" [] OTHER -> s

(* the test on the first character left out *)
StartsWithUnderscoreNever(d) == FALSE

(* d[0] == "_" *)
StartsWithUnderscore(d) ==
    d \in {"_change_password", "_clean_sessions", "_create_session", "_debug"}

(* method.startswith("system.") *)
StartsWithSystem(method) == method \in {"system.listMethods", "system.foo"}

(* register_object: every public exported attribute under lower(name).attr;  *)
(* a name already present is overwritten.                                   *)
register_object(methods, obj, name) ==
    LET prefix == Lower(IF name = "" THEN obj.class ELSE name)
        added == {a \in obj.attrs : ~StartsWithUnderscore(a.name) /\ a.json_export}
        key(a) == prefix \o "." \o a.name
        keys == {key(a) : a \in added}
    IN  [k \in DOMAIN methods \cup keys |->
            IF k \in keys
            THEN LET a == CHOOSE b \in added : key(b) = k
                 IN  [class |-> obj.class, name |-> a.name,
                      minargs |-> a.minargs, maxargs |-> a.maxargs,
                      json_export |-> a.json_export,
                      json_auth_level |-> a.json_auth_level]
            ELSE methods[k]]

NoMethods == [k \in {} |-> 0]

(* dict[key] = value *)
Put(d, key, value) == [k \in DOMAIN d \cup {key} |-> IF k = key THEN value ELSE d[k]]
(* del dict[key] *)
Del(d, key) == [k \in DOMAIN d \ {key} |-> d[k]]

----------------------------------------------------------------------------
(* class Auth *)

Cookie(value, expires) == [name |-> "_session_id", value |-> value, expires |-> expires]

(* check_password accepting any password once a digest is stored *)
check_password_any(cfg, password) ==
    IF "pwd_salt" \notin DOMAIN cfg THEN [raised |-> Exc("KeyError", "pwd_salt"), value |-> FALSE]
    ELSE [raised |-> NoExc, value |-> TRUE]

(* check_password: True when the salted digest matches, None (falsy)        *)
(* otherwise; a missing config key raises KeyError.                         *)
check_password(cfg, password) ==
    IF "pwd_salt" \notin DOMAIN cfg THEN [raised |-> Exc("KeyError", "pwd_salt"), value |-> FALSE]
    ELSE IF "pwd_sha1" \notin DOMAIN cfg THEN [raised |-> Exc("KeyError", "pwd_sha1"), value |-> FALSE]
    ELSE [raised |-> NoExc, value |-> Sha1(cfg["pwd_salt"], password) = cfg["pwd_sha1"]]

(* _change_password storing the new salt and leaving the digest *)
change_password_salt_only(cfg, new_password, salt) == Put(cfg, "pwd_salt", salt)

(* _change_password: a new random salt and the digest of the new password *)
change_password_(cfg, new_password, salt) ==
    Put(Put(cfg, "pwd_salt", salt), "pwd_sha1", Sha1(salt, new_password))

(* a new session at the default level *)
SessionLevelDefault == AUTH_LEVEL_DEFAULT

(* the level a new session gets *)
SessionLevel == AUTH_LEVEL_ADMIN

(* what a method call leaves: the exception or the result, the session      *)
(* table, the config, the cookies added, whether a session id was drawn     *)
Outcome(raised, result, sess, cfg, cookies, created) ==
    [raised |-> raised, result |-> result, sessions |-> sess, config |-> cfg,
     cookies |-> cookies, created |-> created]

(* _create_session: a fresh id, a cookie of id + checksum, a table entry *)
create_session(sess, cfg, t, session_id, login_name) ==
    IF "session_timeout" \notin DOMAIN cfg
    THEN Outcome(Exc("KeyError", "session_timeout"), JNull, sess, cfg, <<>>, FALSE)
    ELSE Outcome(NoExc, JBool(TRUE),
                 Put(sess, session_id,
                     [login |-> login_name, level |-> SessionLevel,
                      expires |-> make_expires(t, cfg["session_timeout"])]),
                 cfg,
                 <<Cookie(CookieValue(session_id), make_expires(t, cfg["session_timeout"]))>>,
                 TRUE)

(* the attributes check_request leaves on the request *)
NoCtx == [set |-> FALSE, auth_level |-> AUTH_LEVEL_NONE, session_id |-> None]
Ctx(auth_level, session_id) == [set |-> TRUE, auth_level |-> auth_level, session_id |-> session_id]

Checked(raised, sess, cookies, ctx) ==
    [raised |-> raised, sessions |-> sess, cookies |-> cookies, ctx |-> ctx]

(* the comparison with its operands swapped *)
LevelTooLowSwapped(auth_level, level) == level < auth_level

(* auth_level < level *)
LevelTooLow(auth_level, level) == auth_level < level

(* check_request from 'if method:' on *)
CheckLevel(sess, cookies, method, auth_level, session_id) ==
    IF ~method.json_export
    THEN Checked(Exc("Exception", "Not an exported method"), sess, cookies, NoCtx)
    ELSE IF method.json_auth_level = LevelNone
    THEN Checked(Exc("Exception", "Method has no auth level"), sess, cookies, NoCtx)
    ELSE Checked(IF LevelTooLow(auth_level, method.json_auth_level)
                 THEN Exc("AuthError", "Not authenticated") ELSE NoExc,
                 sess, cookies, Ctx(auth_level, session_id))

(* check_request once get_session_id has decoded the cookie: a session in   *)
(* the table gets a new expires and its cookie is re-issued                 *)
CheckSession(sess, cfg, t, cookie, method, sid) ==
    IF sid \notin DOMAIN sess
    THEN CheckLevel(sess, <<>>, method, AUTH_LEVEL_NONE, None)
    ELSE IF "session_timeout" \notin DOMAIN cfg
    THEN Checked(Exc("KeyError", "session_timeout"), sess, <<>>, NoCtx)
    ELSE CheckLevel([sess EXCEPT ![sid].expires = make_expires(t, cfg["session_timeout"])],
                    <<Cookie(cookie, make_expires(t, cfg["session_timeout"]))>>,
                    method, sess[sid].level, sid)

(* check_request(request, method) *)
check_request(sess, cfg, t, cookie, method) ==
    CheckSession(sess, cfg, t, cookie, method, get_session_id(cookie))

(* Auth.login *)
LoginChecked(sess, cfg, t, session_id, ok) ==
    IF ok.raised # NoExc THEN Outcome(ok.raised, JNull, sess, cfg, <<>>, FALSE)
    ELSE IF ok.value THEN create_session(sess, cfg, t, session_id, "admin")
    ELSE Outcome(NoExc, JBool(FALSE), sess, cfg, <<>>, FALSE)

login(sess, cfg, t, params, session_id) ==
    LoginChecked(sess, cfg, t, session_id, check_password(cfg, params[1]))

(* Auth.change_password *)
ChangeChecked(sess, cfg, new_password, salt, ok) ==
    IF ok.raised # NoExc THEN Outcome(ok.raised, JNull, sess, cfg, <<>>, FALSE)
    ELSE IF ~ok.value THEN Outcome(NoExc, JBool(FALSE), sess, cfg, <<>>, FALSE)
    ELSE Outcome(NoExc, JBool(TRUE), sess, change_password_(cfg, new_password, salt),
                 <<>>, FALSE)

change_password(sess, cfg, params, salt) ==
    ChangeChecked(sess, cfg, params[2], salt, check_password(cfg, params[1]))

(* Auth.check_session *)
check_session(sess, cfg, ctx) ==
    IF ~ctx.set THEN Outcome(Exc("AttributeError", "session_id"), JNull, sess, cfg, <<>>, FALSE)
    ELSE Outcome(NoExc, JBool(ctx.session_id # None), sess, cfg, <<>>, FALSE)

(* delete_session without the del *)
delete_session_keep(sess, cfg, ctx) ==
    IF ~ctx.set THEN Outcome(Exc("AttributeError", "session_id"), JNull, sess, cfg, <<>>, FALSE)
    ELSE Outcome(NoExc, JBool(TRUE), sess, cfg, <<>>, FALSE)

(* Auth.delete_session *)
delete_session(sess, cfg, ctx) ==
    IF ~ctx.set THEN Outcome(Exc("AttributeError", "session_id"), JNull, sess, cfg, <<>>, FALSE)
    ELSE IF ctx.session_id \notin DOMAIN sess
    THEN Outcome(Exc("KeyError", "session_id"), JNull, sess, cfg, <<>>, FALSE)
    ELSE Outcome(NoExc, JBool(TRUE), Del(sess, ctx.session_id), cfg, <<>>, FALSE)

(* meth applied to params, with __request__ bound to the request *)
Call(meth, params, ctx, sess, cfg, t, session_id, salt) ==
    IF Len(params) < meth.minargs \/ Len(params) > meth.maxargs
    THEN Outcome(Exc("TypeError", "arguments"), JNull, sess, cfg, <<>>, FALSE)
    ELSE CASE meth.class = "Auth" /\ meth.name = "login" ->
                login(sess, cfg, t, params, session_id)
           [] meth.class = "Auth" /\ meth.name = "change_password" ->
                change_password(sess, cfg, params, salt)
           [] meth.class = "Auth" /\ meth.name = "check_session" ->
                check_session(sess, cfg, ctx)
           [] meth.class = "Auth" /\ meth.name = "delete_session" ->
                delete_session(sess, cfg, ctx)
           [] meth.class = "Core" /\ meth.name = "status" ->
                Outcome(NoExc, JStr("ok"), sess, cfg, <<>>, FALSE)
           [] meth.class = "Core" /\ meth.name = "fetch" ->
                Outcome(NoExc, Deferred, sess, cfg, <<>>, FALSE)
           [] meth.class = "Core" /\ meth.name = "load" ->
                Outcome(Exc("Exception", "disk full"), JNull, sess, cfg, <<>>, FALSE)
           [] meth.class = "Core" /\ meth.name = "parse" ->
                Outcome(Exc("Exception", "bad input"), JNull, sess, cfg, <<>>, FALSE)
           [] OTHER ->
                Outcome(NoExc, JNull, sess, cfg, <<>>, FALSE)

----------------------------------------------------------------------------
(* class JsonRpc (the second definition in jsonrpc.py, which is the one the  *)
(* module ends up with)                                                     *)

(* self._remote_methods: the class never assigns it *)
HasRemoteMethods == FALSE
remote_methods == {}

Error(code, message) == [code |-> code, message |-> message]
NoError == [code |-> 0, message |-> ""]

(* what _exec_local leaves: raised is the exception that leaves it, trace   *)
(* lists check_request and the method in the order they ran, ctx is what    *)
(* the method saw through __request__                                       *)
Local(raised, result, sess, cfg, cookies, trace, ctx, created) ==
    [raised |-> raised, result |-> result, sessions |-> sess, config |-> cfg,
     cookies |-> cookies, trace |-> trace, ctx |-> ctx, created |-> created]

(* return meth applied to params *)
Called(request, chk, checked, out) ==
    Local(out.raised, out.result, out.sessions, out.config, chk.cookies \o out.cookies,
          checked \o <<request.method>>, chk.ctx, out.created)

(* the method runs only when check_request has not raised *)
AfterCheck(meth, request, cfg, t, session_id, salt, checked, chk) ==
    IF chk.raised # NoExc
    THEN Local(chk.raised, JNull, chk.sessions, cfg, chk.cookies, checked, chk.ctx, FALSE)
    ELSE Called(request, chk, checked,
                Call(meth, request.params, chk.ctx, chk.sessions, cfg, t, session_id, salt))

(* list(self._local_methods), with a filter on the level *)
listMethodsOpen(methods) ==
    JList({k \in DOMAIN methods : methods[k].json_auth_level = AUTH_LEVEL_NONE})

(* list(self._local_methods) *)
listMethods(methods) == JList(DOMAIN methods)

(* _exec_local *)
exec_local(methods, has_auth, sess, cfg, t, request, session_id, salt) ==
    IF request.method = "system.listMethods"
    THEN Local(NoExc, listMethods(methods), sess, cfg, <<>>, <<>>, NoCtx, FALSE)
    ELSE IF request.method \in DOMAIN methods
    THEN IF has_auth
         THEN AfterCheck(methods[request.method], request, cfg, t, session_id, salt,
                         <<"check_request">>,
                         check_request(sess, cfg, t, request.cookie, methods[request.method]))
         ELSE AfterCheck(methods[request.method], request, cfg, t, session_id, salt,
                         <<>>, Checked(NoExc, sess, <<>>, NoCtx))
    ELSE Local(Exc("NameError", "global name 'JSONException' is not defined"),
               JNull, sess, cfg, <<>>, <<>>, NoCtx, FALSE)

(* the except clauses with AuthError alone caught *)
ErrorOfAuthOnly(raised) ==
    IF raised.type = "AuthError" THEN [code |-> 1, message |-> "Not authenticated"]
    ELSE [code |-> 0, message |-> ""]

(* the except clauses of _handle_request *)
ErrorOf(raised) ==
    IF raised.type = "AuthError" THEN Error(1, "Not authenticated")
    ELSE Error(3, raised.message)

Handled(r) ==
    [raised |-> r.raised,
     result |-> IF r.raised = NoExc THEN r.result ELSE JNull,
     error |-> IF r.raised = NoExc THEN NoError ELSE ErrorOf(r.raised),
     sessions |-> r.sessions, config |-> r.config, cookies |-> r.cookies,
     trace |-> r.trace, ctx |-> r.ctx, created |-> r.created]

Unknown(h) == [h EXCEPT !.error = Error(2, "Unknown method")]

(* _handle_request past the decoding of the body: the try block *)
handle_request(methods, has_auth, sess, cfg, t, request, session_id, salt) ==
    IF StartsWithSystem(request.method) \/ request.method \in DOMAIN methods
    THEN Handled(exec_local(methods, has_auth, sess, cfg, t, request, session_id, salt))
    ELSE IF ~HasRemoteMethods
    THEN Handled(Local(Exc("AttributeError",
                           "JsonRpc instance has no attribute '_remote_methods'"),
                       JNull, sess, cfg, <<>>, <<>>, NoCtx, FALSE))
    ELSE IF request.method \in remote_methods
    THEN Handled(Local(Exc("AttributeError",
                           "JsonRpc instance has no attribute '_exec_remote'"),
                       JNull, sess, cfg, <<>>, <<>>, NoCtx, FALSE))
    ELSE Unknown(Handled(Local(NoExc, JNull, sess, cfg, <<>>, <<>>, NoCtx, FALSE)))

(* what the callback the reactor ran last leaves behind. render: the         *)
(* request, the HTTP status, the envelope written (if any), the cookies     *)
(* added to the response, what ran and what the method saw as __request__.  *)
(* raised is the exception _handle_request caught around the dispatch,      *)
(* failure the one that reached render's except clause.                     *)
(* _clean_sessions: the session ids it deleted.                             *)
(* a Deferred firing: seen is what the method that goes on reads as         *)
(* __request__.                                                             *)
(* a method of the EventManager: call is its arguments and what it          *)
(* returned, raised the exception that left it.                             *)
NoGlobal == [id |-> 0]
NoCall == [listener |-> "", event |-> "", args |-> <<>>, returned |-> JNull]
NoEnvelope == [id |-> 0, result |-> JNull, error |-> NoError]
NoRequest == [verb |-> "", body |-> "", method |-> "", params |-> <<>>, id |-> 0,
              cookie |-> None]
NoLast == [callback |-> "", req |-> NoRequest, status |-> 0, sent |-> FALSE,
           envelope |-> NoEnvelope, cookies |-> <<>>, trace |-> <<>>, ctx |-> NoCtx,
           raised |-> NoExc, failure |-> NoExc, removed |-> {}, seen |-> NoGlobal,
           call |-> NoCall]

(* the requests of the model *)
MethodNames ==
    DOMAIN register_object(register_object(NoMethods, AuthObject, ""), CoreObject, "")
        \cup {"system.listMethods", "system.foo", "nonexistent.op"}

ParamsFor(method) ==
    CASE method = "auth.login" -> {<<>>} \cup {<<p>> : p \in Passwords}
      [] method = "auth.change_password" -> {<<p, q>> : p \in Passwords, q \in Passwords}
      [] OTHER -> {<<>>}

(* cookie values a client can present: none, the cookie of a session id, a   *)
(* session id with a checksum that is off by one                            *)
Tampered(session_id) == session_id \o Str(make_checksum(session_id).value + 1)
PresentedCookies ==
    {None} \cup {CookieValue(i) : i \in SessionIds} \cup {Tampered(IdOf(97, 98))}

Requests ==
    {[verb |-> "POST", body |-> "json", method |-> m, params |-> p, id |-> i, cookie |-> c] :
        m \in MethodNames, p \in UNION {ParamsFor(n) : n \in MethodNames},
        i \in RequestIds, c \in PresentedCookies}

WellFormed(r) == r.params \in ParamsFor(r.method)

(* a verb other than POST, and bodies that fail json.loads or lack a field *)
ProtocolRequests ==
    {[verb |-> v, body |-> b, method |-> "auth.login", params |-> <<"pw1">>, id |-> 1,
      cookie |-> c] :
        v \in {"POST", "GET"},
        b \in {"json", "undecodable", "no_method", "no_params", "no_id"},
        c \in {None, CookieValue(IdOf(97, 98))}}

AllRequests == {r \in Requests : WellFormed(r)} \cup ProtocolRequests

(* random.getrandbits(40): what a request can draw. Only login draws a      *)
(* session id, and never one drawn before; only change_password draws a     *)
(* salt.                                                                    *)
DrawnIds(request, drawn) ==
    IF request.method = "auth.login" THEN (SessionIds \ drawn) \cup {None} ELSE {None}
DrawnSalts(request) ==
    IF request.method = "auth.change_password" THEN Salts ELSE {CHOOSE x \in Salts : TRUE}

----------------------------------------------------------------------------
(* The EventManager *)

(* __init__: three empty dicts *)
EventManager ==
    [events |-> [k \in {} |-> <<>>], handlers |-> [k \in {} |-> ""],
     queue |-> [k \in {} |-> <<>>]]

(* the name on_event, which add_listener reads, is defined nowhere: not in  *)
(* the method, not in the module, not among the builtins                    *)
HasOnEvent == FALSE

(* the listener ids, event names and argument tuples of the model *)
Listeners == {"l1", "l2"}
Events == {"e1", "e2"}
EventArgs == {<<>>, <<1>>}

(* a list a method returns, None being JNull *)
EventList(q) == [t |-> "list", items |-> q]

(* l is in the list *)
InList(l, list) == \E i \in 1..Len(list) : list[i] = l

(* list.remove(l): the list without the first l *)
Removed(l, list) ==
    LET i == CHOOSE j \in 1..Len(list) :
                 list[j] = l /\ \A k \in 1..(j - 1) : list[k] # l
    IN  SubSeq(list, 1, i - 1) \o SubSeq(list, i + 1, Len(list))

(* the pending events of a listener, none when it has no queue *)
QueueOf(m, l) == IF l \in DOMAIN m.queue THEN m.queue[l] ELSE <<>>

(* the loop of fire_event: item is appended to the queue of each listener   *)
(* of the list, a queue being made for one that has none                    *)
RECURSIVE Appended(_, _, _)
Appended(queue, list, item) ==
    IF list = <<>> THEN queue
    ELSE Appended(Put(queue, Head(list),
                      (IF Head(list) \in DOMAIN queue THEN queue[Head(list)] ELSE <<>>)
                          \o <<item>>),
                  Tail(list), item)

----------------------------------------------------------------------------
(* The state machine *)

Init ==
    /\ now = 0
    /\ auth \in BOOLEAN
    /\ sessions = [k \in {} |-> 0]
    /\ config = [k \in {} |-> 0]
    /\ local_methods = IF auth THEN register_object(NoMethods, AuthObject, "")
                       ELSE NoMethods
    /\ issued = {}
    /\ pending = {}
    /\ request_global = NoGlobal
    /\ manager = EventManager
    /\ listened = {}
    /\ last = NoLast

(* the reactor is between two callbacks: no request is being rendered *)
Idle == last = NoLast

(* a second of wall-clock time passes *)
Tick ==
    /\ Idle
    /\ now < MaxTime
    /\ now' = now + 1
    /\ UNCHANGED <<auth, sessions, config, local_methods, issued, pending,
                   request_global, manager, listened, last>>

(* the embedding application sets config['session_timeout'], once *)
configure(timeout) ==
    /\ Idle
    /\ auth
    /\ "session_timeout" \notin DOMAIN config
    /\ config' = Put(config, "session_timeout", timeout)
    /\ UNCHANGED <<now, auth, sessions, local_methods, issued, pending,
                   request_global, manager, listened, last>>

(* the embedding application calls Auth._change_password to set or reset     *)
(* the password                                                             *)
reset_password(new_password, salt) ==
    /\ Idle
    /\ auth
    /\ config' = change_password_(config, new_password, salt)
    /\ UNCHANGED <<now, auth, sessions, local_methods, issued, pending,
                   request_global, manager, listened, last>>

(* the comparison including the current second *)
ExpiredOrNow(session, t) == session.expires <= t

(* time.gmtime(session['expires']) < now *)
Expired(session, t) == session.expires < t

(* a sweep that compares nothing and deletes nothing *)
clean_sessions_keep ==
    /\ Idle
    /\ auth
    /\ sessions' = sessions
    /\ last' = [NoLast EXCEPT !.callback = "_clean_sessions"]
    /\ UNCHANGED <<now, auth, config, local_methods, issued, pending,
                   request_global, manager, listened>>

(* Auth._clean_sessions, run by the LoopingCall *)
clean_sessions ==
    /\ Idle
    /\ auth
    /\ sessions' = [k \in {i \in DOMAIN sessions : ~Expired(sessions[i], now)} |-> sessions[k]]
    /\ last' = [NoLast EXCEPT !.callback = "_clean_sessions",
                              !.removed = {i \in DOMAIN sessions : Expired(sessions[i], now)}]
    /\ UNCHANGED <<now, auth, config, local_methods, issued, pending,
                   request_global, manager, listened>>

(* the embedding application registers its object *)
register(name) ==
    /\ Idle
    /\ local_methods' = register_object(local_methods, CoreObject, name)
    /\ UNCHANGED <<now, auth, sessions, config, issued, pending,
                   request_global, manager, listened, last>>

(* meth.func_globals['__request__'] = request: the name is a global of the  *)
(* module that defines the method, one for all the methods of the module    *)
(* and all the requests. Auth's methods return before another request is    *)
(* rendered and get what they read as a parameter; g is the global of the   *)
(* application's module, written before check_request runs and whatever   *)
(* it answers. The request object is kept by its id.                        *)
set_request(methods, request, g) ==
    IF request.method \in DOMAIN methods /\ methods[request.method].class = "Core"
    THEN [id |-> request.id]
    ELSE g

(* the continuations JsonRpc has for a Deferred: _on_json_request names      *)
(* self._on_rpc_request_finished and self._on_rpc_request_failed, which     *)
(* only the first, replaced, definition of the class has                    *)
HasContinuations == FALSE

(* _on_json_request with a result that is no Deferred, and _send_response:  *)
(* the envelope is written with status 200 and what the dispatch changed is *)
(* kept                                                                     *)
send_response(request, session_id, h) ==
    /\ h.result # Deferred
    /\ h.created <=> session_id # None
    /\ sessions' = h.sessions
    /\ config' = h.config
    /\ issued' = IF h.created THEN issued \cup {session_id} ELSE issued
    /\ last' = [callback |-> "render", req |-> request, status |-> 200, sent |-> TRUE,
                envelope |-> [id |-> request.id, result |-> h.result, error |-> h.error],
                cookies |-> h.cookies, trace |-> h.trace, ctx |-> h.ctx,
                raised |-> h.raised, failure |-> NoExc, removed |-> {},
                seen |-> NoGlobal, call |-> NoCall]
    /\ request_global' = set_request(local_methods, request, request_global)
    /\ UNCHANGED <<now, auth, local_methods, pending, manager, listened>>

(* _on_json_request with a Deferred: the lookup of the continuation raises   *)
(* AttributeError before anything is added to the Deferred, render catches  *)
(* it and _on_json_request_failed answers 500 with an empty body. What the  *)
(* method and check_request did before stays done.                          *)
deferred_response(request, session_id, h) ==
    /\ h.result = Deferred
    /\ ~HasContinuations
    /\ session_id = None
    /\ sessions' = h.sessions
    /\ config' = h.config
    /\ pending' = pending \cup {request.id}
    /\ last' = [NoLast EXCEPT !.callback = "render", !.req = request, !.status = 500,
                              !.cookies = h.cookies, !.trace = h.trace, !.ctx = h.ctx,
                              !.failure = Exc("AttributeError",
                                  "'JsonRpc' object has no attribute '_on_rpc_request_finished'")]
    /\ request_global' = set_request(local_methods, request, request_global)
    /\ UNCHANGED <<now, auth, local_methods, issued, manager, listened>>

(* _on_json_request once _handle_request has returned *)
on_json_request(request, session_id, h) ==
    \/ send_response(request, session_id, h)
    \/ deferred_response(request, session_id, h)

(* the body decodes and has 'method', 'params' and 'id', 'id' aside *)
DecodesWithoutId(request) == request.body \in {"json", "no_id"}

(* json.loads succeeds and the object has 'method', 'params' and 'id' *)
Decodes(request) == request.body = "json"

(* JsonRpc.render with _on_json_request, _handle_request and _send_response *)
render(request, session_id, salt) ==
    /\ Idle
    /\ IF request.verb # "POST"
       THEN /\ last' = [NoLast EXCEPT !.callback = "render", !.req = request, !.status = 405]
            /\ session_id = None
            /\ UNCHANGED <<now, auth, sessions, config, local_methods, issued,
                           pending, request_global, manager, listened>>
       ELSE IF ~Decodes(request)
       THEN /\ last' = [NoLast EXCEPT !.callback = "render", !.req = request, !.status = 500,
                                     !.failure = Exc("NameError",
                                         "global name 'JSONException' is not defined")]
            /\ session_id = None
            /\ UNCHANGED <<now, auth, sessions, config, local_methods, issued,
                           pending, request_global, manager, listened>>
       ELSE on_json_request(request, session_id,
                            handle_request(local_methods, auth, sessions, config, now,
                                           request, session_id, salt))

(* the callback has returned and the reactor is idle again: the request    *)
(* object and its response are gone                                         *)
finish ==
    /\ ~Idle
    /\ last' = NoLast
    /\ UNCHANGED <<now, auth, sessions, config, local_methods, issued, pending,
                   request_global, manager, listened>>

(* a Deferred a method returned fires, with a value (callback) or with a    *)
(* failure (errback): it runs the continuations added to it, and none was   *)
(* by JsonRpc. The method that was waiting for it goes on, and the name     *)
(* __request__ it reads is looked up in its module's globals at that time.  *)
fire(id, how) ==
    /\ Idle
    /\ id \in pending
    /\ ~HasContinuations
    /\ pending' = pending \ {id}
    /\ last' = [NoLast EXCEPT !.callback = how, !.req = [NoRequest EXCEPT !.id = id],
                              !.seen = request_global]
    /\ UNCHANGED <<now, auth, sessions, config, local_methods, issued,
                   request_global, manager, listened>>

Next ==
    \/ Tick
    \/ \E timeout \in SessionTimeouts : configure(timeout)
    \/ \E p \in Passwords, salt \in Salts : reset_password(p, salt)
    \/ clean_sessions
    \/ \E name \in {"", "Core"} : register(name)
    \/ \E request \in AllRequests :
          \E session_id \in DrawnIds(request, issued), salt \in DrawnSalts(request) :
            render(request, session_id, salt)
    \/ finish
    \/ \E id \in pending, how \in {"callback", "errback"} : fire(id, how)

Spec == Init /\ [][Next]_vars

(* The reactor's scheduling: the LoopingCall started in Auth.__init__ runs  *)
(* _clean_sessions every 5 seconds whatever the request traffic is, so the  *)
(* sweep, which can run whenever the reactor is between two callbacks, does *)
(* run again and again; and a callback that has started returns.            *)
FairSpec == Spec /\ SF_vars(clean_sessions) /\ WF_vars(finish)

----------------------------------------------------------------------------
(* Properties *)

(* a step that renders a request, and one that dispatches it (the body was   *)
(* decoded and an envelope was written)                                     *)
Rendered == Idle /\ last'.callback = "render"
Dispatched == Rendered /\ last'.status = 200
WasDispatched == last.callback = "render" /\ last.status = 200

(* the level of the session a cookie names in a session table *)
EffectiveLevel(sess, cookie) ==
    IF get_session_id(cookie) \in DOMAIN sess
    THEN sess[get_session_id(cookie)].level
    ELSE AUTH_LEVEL_NONE

Envelope(id, result, error) == [id |-> id, result |-> result, error |-> error]
NotAuthenticated == Error(1, "Not authenticated")

(* C1: with auth enabled, a request for a registered method runs            *)
(* check_request exactly once and before the method; the method runs only   *)
(* if the caller's level is at least the method's level; a caller below it  *)
(* gets {id, result: null, error: {1, "Not authenticated"}} and the method  *)
(* does not run.                                                            *)
C1_CheckBeforeHandler ==
    [][(Dispatched /\ auth /\ last'.req.method \in DOMAIN local_methods) =>
        LET m == local_methods[last'.req.method]
            eff == EffectiveLevel(sessions, last'.req.cookie)
            tr == last'.trace
        IN  /\ Len(tr) \in {1, 2}
            /\ tr[1] = "check_request"
            /\ Len(tr) = 2 => /\ tr[2] = last'.req.method
                              /\ m.json_auth_level # LevelNone
                              /\ eff >= m.json_auth_level
            /\ (m.json_auth_level # LevelNone /\ eff < m.json_auth_level) =>
                  /\ tr = <<"check_request">>
                  /\ last'.envelope = Envelope(last'.req.id, JNull, NotAuthenticated)
      ]_vars

(* a method that needs the admin level, asked for without a session, is     *)
(* answered with error 1                                                    *)
C1_Witness ==
    /\ WasDispatched
    /\ last.req.method = "core.shutdown"
    /\ last.req.cookie = None
    /\ last.trace = <<"check_request">>
    /\ last.envelope = Envelope(last.req.id, JNull, NotAuthenticated)

(* the three kinds of cookie that must not authenticate: the id of no       *)
(* session in the table, a checksum that does not match, a session whose    *)
(* expires has passed                                                       *)
AbsentId(sess, cookie) ==
    /\ cookie # None
    /\ get_session_id(cookie) # None
    /\ get_session_id(cookie) \notin DOMAIN sess
BadChecksum(cookie) == cookie # None /\ get_session_id(cookie) = None
ExpiredId(sess, t, cookie) ==
    /\ get_session_id(cookie) \in DOMAIN sess
    /\ sess[get_session_id(cookie)].expires < t

(* C2: check_request gives level none and session id None for a cookie of   *)
(* an absent id, of a mismatching checksum and of an expired session,       *)
(* swept or not; for a method above level none all three get error 1.       *)
C2_Original ==
    [][(/\ Dispatched /\ auth /\ last'.req.method \in DOMAIN local_methods
        /\ local_methods[last'.req.method].json_auth_level # LevelNone
        /\ \/ AbsentId(sessions, last'.req.cookie)
           \/ BadChecksum(last'.req.cookie)
           \/ ExpiredId(sessions, now, last'.req.cookie)) =>
        /\ last'.ctx = Ctx(AUTH_LEVEL_NONE, None)
        /\ local_methods[last'.req.method].json_auth_level > AUTH_LEVEL_NONE =>
              last'.envelope = Envelope(last'.req.id, JNull, NotAuthenticated)
      ]_vars

(* C3: a well-formed request for a method that is not registered (and is    *)
(* not system.listMethods) is answered {id, result: null, error code 2},    *)
(* and no method runs.                                                      *)
C3_Original ==
    (/\ WasDispatched
     /\ last.req.method \notin DOMAIN local_methods
     /\ last.req.method # "system.listMethods") =>
        /\ last.envelope.id = last.req.id
        /\ last.envelope.result = JNull
        /\ last.envelope.error.code = 2
        /\ last.trace = <<>>

(* the password verifies against the stored salt and digest *)
Verifies(cfg, password) ==
    /\ "pwd_salt" \in DOMAIN cfg
    /\ "pwd_sha1" \in DOMAIN cfg
    /\ Sha1(cfg["pwd_salt"], password) = cfg["pwd_sha1"]
Seeded(cfg) == "pwd_salt" \in DOMAIN cfg /\ "pwd_sha1" \in DOMAIN cfg

(* C4: auth.login with the correct password and no cookie (the session      *)
(* timeout being configured) answers {id, result: true, error: null}, adds  *)
(* one new session to the table, sets the cookie _session_id to the new id  *)
(* followed by its checksum, and check_request resolves that cookie to the  *)
(* new session.                                                             *)
C4_LoginCreatesSession ==
    [][(/\ Dispatched /\ auth
        /\ last'.req.method = "auth.login"
        /\ last'.req.cookie = None
        /\ Len(last'.req.params) = 1
        /\ Verifies(config, last'.req.params[1])
        /\ "session_timeout" \in DOMAIN config) =>
        /\ last'.envelope = Envelope(last'.req.id, JBool(TRUE), NoError)
        /\ \E sid \in DOMAIN sessions' \ DOMAIN sessions :
              /\ DOMAIN sessions' = DOMAIN sessions \cup {sid}
              /\ Len(last'.cookies) = 1
              /\ last'.cookies[1].name = "_session_id"
              /\ last'.cookies[1].value = sid \o Str(SumCodes(sid))
              /\ check_request(sessions', config', now', last'.cookies[1].value,
                               local_methods'["auth.check_session"]).ctx
                    = Ctx(sessions'[sid].level, sid)
      ]_vars

C4_Witness ==
    /\ WasDispatched
    /\ last.req.method = "auth.login"
    /\ last.req.cookie = None
    /\ last.envelope.result = JBool(TRUE)
    /\ Len(last.cookies) = 1
    /\ get_session_id(last.cookies[1].value) \in DOMAIN sessions

(* C5 as claimed: every session in the table has the login "admin" and the   *)
(* default level (normal).                                                  *)
C5_Original ==
    \A sid \in DOMAIN sessions :
        /\ sessions[sid].login = "admin"
        /\ sessions[sid].level = AUTH_LEVEL_DEFAULT

(* C5 amended: every session in the table has the login "admin" and the     *)
(* admin level.                                                             *)
C5_SessionsAreAdmin ==
    \A sid \in DOMAIN sessions :
        /\ sessions[sid].login = "admin"
        /\ sessions[sid].level = AUTH_LEVEL_ADMIN

C5_Witness ==
    /\ WasDispatched
    /\ last.req.method = "auth.login"
    /\ last.envelope.result = JBool(TRUE)
    /\ \E sid \in DOMAIN sessions : last.cookies[Len(last.cookies)].value = CookieValue(sid)

(* C6: an auth.login call whose password does not verify returns False:    *)
(* the call creates no session, draws no session id, sets no cookie and     *)
(* leaves the session table and the salt and digest as check_request left   *)
(* them (unchanged altogether when the request presents no session).        *)
C6_FailedLoginChangesNothing ==
    [][(/\ Dispatched /\ auth
        /\ last'.req.method = "auth.login"
        /\ Len(last'.req.params) = 1
        /\ Seeded(config)
        /\ ~Verifies(config, last'.req.params[1])) =>
        /\ last'.envelope = Envelope(last'.req.id, JBool(FALSE), NoError)
        /\ config' = config
        /\ issued' = issued
        /\ DOMAIN sessions' = DOMAIN sessions
        /\ \A sid \in DOMAIN sessions :
              \/ sessions'[sid] = sessions[sid]
              \/ /\ sid = get_session_id(last'.req.cookie)
                 /\ sessions'[sid] = [sessions[sid] EXCEPT !.expires = sessions'[sid].expires]
        /\ \A i \in 1..Len(last'.cookies) :
              /\ last'.cookies[i].value = last'.req.cookie
              /\ get_session_id(last'.req.cookie) \in DOMAIN sessions
        /\ get_session_id(last'.req.cookie) \notin DOMAIN sessions =>
              /\ sessions' = sessions
              /\ last'.cookies = <<>>
      ]_vars

C6_Witness ==
    /\ WasDispatched
    /\ last.req.method = "auth.login"
    /\ Len(last.req.params) = 1
    /\ Seeded(config)
    /\ ~Verifies(config, last.req.params[1])
    /\ last.envelope.result = JBool(FALSE)

(* the passwords check_password accepts *)
Accepted(cfg) ==
    {s \in Passwords : check_password(cfg, s) = [raised |-> NoExc, value |-> TRUE]}

(* the password a step rotates to: given to _change_password by the          *)
(* application, or by a change_password call that returned True              *)
RotatedTo ==
    {p \in Passwords : \E salt \in Salts : reset_password(p, salt)}
        \cup (IF /\ Dispatched
                 /\ last'.req.method = "auth.change_password"
                 /\ last'.envelope.result = JBool(TRUE)
              THEN {last'.req.params[2]} ELSE {})

(* C7: after every rotation check_password accepts the password rotated to  *)
(* and no other, and no other step changes what it accepts: it accepts s    *)
(* iff s is the password of the most recent rotation.                       *)
C7_AcceptsLastRotated ==
    [][IF RotatedTo # {}
       THEN \E p \in RotatedTo : Accepted(config') = {p}
       ELSE Accepted(config') = Accepted(config)
      ]_vars

(* a change_password call has rotated to another password: the old one is   *)
(* no longer accepted                                                       *)
C7_Witness ==
    /\ WasDispatched
    /\ last.req.method = "auth.change_password"
    /\ last.envelope.result = JBool(TRUE)
    /\ last.req.params[1] # last.req.params[2]
    /\ Accepted(config) = {last.req.params[2]}

(* C8: while no salt and digest are stored, check_password reports          *)
(* not-verified for every candidate and auth.login returns False.           *)
C8_Original ==
    (auth /\ ~Seeded(config)) =>
        /\ \A s \in Passwords : check_password(config, s) = [raised |-> NoExc, value |-> FALSE]
        /\ (/\ WasDispatched
            /\ last.req.method = "auth.login"
            /\ Len(last.req.params) = 1) =>
                last.envelope = Envelope(last.req.id, JBool(FALSE), NoError)

(* a cookie of a session that is in the table and has not expired *)
LiveId(sess, t, cookie) ==
    /\ get_session_id(cookie) \in DOMAIN sess
    /\ sess[get_session_id(cookie)].expires >= t

(* C9 as claimed: a check_request that presents a live session strictly     *)
(* increases its expires and leaves its login and level.                    *)
C9_Original ==
    [][(/\ Dispatched /\ auth /\ last'.req.method \in DOMAIN local_methods
        /\ LiveId(sessions, now, last'.req.cookie)
        /\ get_session_id(last'.req.cookie) \in DOMAIN sessions') =>
        LET sid == get_session_id(last'.req.cookie)
        IN  /\ sessions'[sid].expires > sessions[sid].expires
            /\ sessions'[sid].login = sessions[sid].login
            /\ sessions'[sid].level = sessions[sid].level
      ]_vars

(* C9 amended: a check_request that presents a live session sets its        *)
(* expires to now + session_timeout, which is never less than it was, and   *)
(* leaves its login and level.                                              *)
C9_TouchSetsExpires ==
    [][(/\ Dispatched /\ auth /\ last'.req.method \in DOMAIN local_methods
        /\ LiveId(sessions, now, last'.req.cookie)
        /\ get_session_id(last'.req.cookie) \in DOMAIN sessions') =>
        LET sid == get_session_id(last'.req.cookie)
        IN  /\ sessions'[sid].expires = now + config["session_timeout"]
            /\ sessions'[sid].expires >= sessions[sid].expires
            /\ sessions'[sid].login = sessions[sid].login
            /\ sessions'[sid].level = sessions[sid].level
            /\ DOMAIN sessions \subseteq DOMAIN sessions' \cup {sid}
      ]_vars

(* a request other than login has presented a session after the clock has  *)
(* moved, and the session expires later than when it was created            *)
C9_Witness ==
    /\ WasDispatched
    /\ last.req.method = "auth.check_session"
    /\ last.ctx.session_id \in DOMAIN sessions
    /\ now > 0
    /\ last.cookies = <<Cookie(last.req.cookie, now + config["session_timeout"])>>
    /\ sessions[last.ctx.session_id].expires = now + config["session_timeout"]

(* C10: a run of _clean_sessions removes every session whose expires is in  *)
(* the past and leaves every other session as it was; with no expired       *)
(* session it changes nothing.                                              *)
C10_SweepRemovesExpired ==
    [][(Idle /\ last'.callback = "_clean_sessions") =>
        /\ DOMAIN sessions' = {sid \in DOMAIN sessions : sessions[sid].expires >= now}
        /\ \A sid \in DOMAIN sessions' : sessions'[sid] = sessions[sid]
        /\ (\A sid \in DOMAIN sessions : sessions[sid].expires >= now) => sessions' = sessions
        /\ UNCHANGED <<now, config, local_methods, issued>>
      ]_vars

(* a sweep has removed an expired session and kept a live one *)
C10_Witness ==
    /\ last.callback = "_clean_sessions"
    /\ last.removed # {}
    /\ last.removed \cap DOMAIN sessions = {}
    /\ \E sid \in DOMAIN sessions : sessions[sid].expires >= now

(* C11: a system.listMethods request always succeeds, with or without auth  *)
(* and whatever cookie it carries (none included): the result is the list   *)
(* of every name in the registry, the error is null, check_request is not   *)
(* run and nothing changes.                                                 *)
C11_ListMethodsOpen ==
    [][(Rendered /\ last'.req.verb = "POST" /\ last'.req.body = "json"
        /\ last'.req.method = "system.listMethods") =>
        /\ last'.status = 200
        /\ last'.envelope = Envelope(last'.req.id, JList(DOMAIN local_methods), NoError)
        /\ last'.trace = <<>>
        /\ last'.cookies = <<>>
        /\ UNCHANGED <<sessions, config, local_methods, issued, pending>>
      ]_vars

(* without a session, with auth enabled, the list holds methods that need   *)
(* a level                                                                  *)
C11_Witness ==
    /\ WasDispatched
    /\ auth
    /\ last.req.method = "system.listMethods"
    /\ last.req.cookie = None
    /\ last.envelope.error = NoError
    /\ last.envelope.result = JList(DOMAIN local_methods)
    /\ "core.shutdown" \in DOMAIN local_methods
    /\ "auth.change_password" \in DOMAIN local_methods

(* the method an attribute of an object is *)
MethodOf(obj, a) ==
    [class |-> obj.class, name |-> a.name, minargs |-> a.minargs, maxargs |-> a.maxargs,
     json_export |-> a.json_export, json_auth_level |-> a.json_auth_level]

(* the names the Core object is to be found under, written out *)
CoreKeys ==
    {<<"core.fetch", "fetch">>, <<"core.info", "info">>, <<"core.load", "load">>,
     <<"core.parse", "parse">>, <<"core.shutdown", "shutdown">>,
     <<"core.status", "status">>}

(* C12: after register_object(obj, name) every public attribute of obj that *)
(* export has marked is in the registry under lower(name or class name) +   *)
(* "." + attribute name and is that method of obj; attributes that are not  *)
(* exported or start with "_" are not added; the other names stay as they   *)
(* were.                                                                    *)
C12_RegisterRoundTrip ==
    [][(/\ Idle /\ last' = NoLast /\ now' = now /\ config' = config
        /\ \E name \in {"", "Core"} : register(name)) =>
        /\ \A a \in CoreObject.attrs :
              IF a.json_export /\ a.name # "_debug"
              THEN \E k \in CoreKeys :
                      /\ k[2] = a.name
                      /\ k[1] \in DOMAIN local_methods'
                      /\ local_methods'[k[1]] = MethodOf(CoreObject, a)
              ELSE \A k \in DOMAIN local_methods' :
                      local_methods'[k].class = "Core" => local_methods'[k].name # a.name
        /\ DOMAIN local_methods' = DOMAIN local_methods \cup {k[1] : k \in CoreKeys}
        /\ \A k \in DOMAIN local_methods :
              local_methods[k].class # "Core" => local_methods'[k] = local_methods[k]
      ]_vars

(* the object is registered beside Auth's methods: its exported public      *)
(* methods resolve, _debug (exported, private) and helper (public, not      *)
(* exported) do not                                                         *)
C12_Witness ==
    /\ auth
    /\ "auth.login" \in DOMAIN local_methods
    /\ "core.status" \in DOMAIN local_methods
    /\ local_methods["core.status"].name = "status"
    /\ local_methods["core.info"].json_auth_level = LevelNone
    /\ "core._debug" \notin DOMAIN local_methods
    /\ "core.helper" \notin DOMAIN local_methods

(* C13: a POST whose body does not decode, or lacks 'method', 'params' or   *)
(* 'id', is answered with an HTTP error status and no envelope;             *)
(* check_request and the method do not run, and the session table, every    *)
(* expires in it, and the response cookies stay as they were.               *)
C13_ProtocolErrorNoEnvelope ==
    [][(Rendered /\ last'.req.verb = "POST" /\ last'.req.body # "json") =>
        /\ last'.status \in 400..599
        /\ ~last'.sent
        /\ last'.envelope = NoEnvelope
        /\ last'.trace = <<>>
        /\ last'.cookies = <<>>
        /\ UNCHANGED <<sessions, config, local_methods, issued, pending>>
      ]_vars

(* a body without 'id', sent with the cookie of a session in the table *)
C13_Witness ==
    /\ last.callback = "render"
    /\ last.req.verb = "POST"
    /\ last.req.body = "no_id"
    /\ get_session_id(last.req.cookie) \in DOMAIN sessions
    /\ last.status = 500
    /\ ~last.sent

(* a step that dispatches a decoded request and ends in a dispatch error:   *)
(* something was raised inside _handle_request's try block (AuthError, an   *)
(* exception of the method or of the lookup), or the method is not known    *)
DispatchError ==
    /\ Rendered
    /\ last'.req.verb = "POST"
    /\ last'.req.body = "json"
    /\ \/ last'.raised # NoExc
       \/ last'.req.method \notin DOMAIN local_methods \cup {"system.listMethods"}

(* C14: every dispatch error (unknown method, not authenticated, an         *)
(* exception raised by the method) is answered with status 200 and an       *)
(* envelope with the request's id, result null and an error with a code     *)
(* and a message.                                                           *)
C14_DispatchErrorEnvelope ==
    [][DispatchError =>
        /\ last'.status = 200
        /\ last'.sent
        /\ last'.failure = NoExc
        /\ last'.envelope.id = last'.req.id
        /\ last'.envelope.result = JNull
        /\ last'.envelope.error # NoError
        /\ DOMAIN last'.envelope.error = {"code", "message"}
        /\ last'.envelope.error.code \in {1, 2, 3}
        /\ last'.envelope.error.message \in STRING
      ]_vars

(* a method has raised for a request with id 7 *)
C14_Witness ==
    /\ WasDispatched
    /\ last.req.id = 7
    /\ last.req.method = "core.load"
    /\ last.trace # <<>>
    /\ last.trace[Len(last.trace)] = "core.load"
    /\ last.raised = Exc("Exception", "disk full")
    /\ last.envelope.id = 7
    /\ last.envelope.error.code = 3

(* C15: in every envelope sent exactly one of result and error is not null, *)
(* for every registered method and every value a method can return.         *)
C15_Original ==
    (last.callback = "render" /\ last.sent) =>
        ((last.envelope.result # JNull) # (last.envelope.error # NoError))

(* a step in which a method has run and returned a Deferred *)
ReturnedDeferred ==
    /\ Rendered
    /\ last'.req.method = "core.fetch"
    /\ last'.trace # <<>>
    /\ last'.trace[Len(last'.trace)] = "core.fetch"

(* C16: when an authorized method returns a Deferred the request stays      *)
(* unanswered until the Deferred fires (no status, no body, the Deferred    *)
(* pending with the continuations on it), and when it fires with a value    *)
(* one envelope {id, result: the value, error: null} is sent.               *)
C16_Original ==
    [][/\ ReturnedDeferred =>
            /\ last'.failure = NoExc
            /\ last'.status \notin 400..599
            /\ ~last'.sent
            /\ last'.req.id \in pending'
       /\ (Idle /\ last'.callback = "callback") =>
            /\ last'.sent
            /\ last'.envelope.id = last'.req.id
            /\ last'.envelope.error = NoError
      ]_vars

(* C17: when the Deferred of a method fails, the request is answered with  *)
(* an envelope {id, result: null, error: {code 3, a generic message}}.      *)
C17_Original ==
    [][(Idle /\ last'.callback = "errback") =>
            /\ last'.sent
            /\ last'.envelope.id = last'.req.id
            /\ last'.envelope.result = JNull
            /\ last'.envelope.error.code = 3
      ]_vars

(* the dispatch of a request ended with an exception of the method itself   *)
(* (the method ran, and what was raised is no AuthError)                    *)
HandlerRaised(method, h) ==
    /\ h.raised # NoExc
    /\ h.raised.type # "AuthError"
    /\ h.trace # <<>>
    /\ h.trace[Len(h.trace)] = method

(* C18: when a method raises, the envelope carries error code 3 and a       *)
(* message that does not depend on the exception: any other request that    *)
(* makes a method raise in the same state gets the identical error object.  *)
C18_Original ==
    [][(Dispatched /\ HandlerRaised(last'.req.method, last')) =>
        /\ last'.envelope.error.code = 3
        /\ \A r \in AllRequests :
              (r.verb = "POST" /\ r.body = "json"
               /\ r.cookie = last'.req.cookie /\ r.id = last'.req.id) =>
                  \A salt \in Salts :
                      LET h == handle_request(local_methods, auth, sessions, config, now,
                                              r, None, salt)
                      IN  HandlerRaised(r.method, h) => h.error = last'.envelope.error
      ]_vars

(* C19: whenever a decoded request that presents a live session has been    *)
(* answered, for any method, system.listMethods and unknown methods         *)
(* included, the session's expires is renewed and the response re-issues    *)
(* the '_session_id' cookie with the same value and the new expires.        *)
C19_Original ==
    [][(/\ Rendered /\ auth
        /\ last'.req.verb = "POST" /\ last'.req.body = "json"
        /\ LiveId(sessions, now, last'.req.cookie)
        /\ get_session_id(last'.req.cookie) \in DOMAIN sessions') =>
        LET sid == get_session_id(last'.req.cookie)
        IN  /\ sessions'[sid].expires = now + config["session_timeout"]
            /\ \E i \in 1..Len(last'.cookies) :
                  last'.cookies[i] = Cookie(last'.req.cookie, now + config["session_timeout"])
      ]_vars

(* C20: an authorized auth.delete_session removes the caller's session      *)
(* from the table and no other, and the cookie then names no session        *)
(* (level none); a session id that has left the table never comes back, so  *)
(* every later request with the cookie gets level none; a delete_session    *)
(* request whose session is absent leaves the table unchanged.              *)
C20_DeleteSession ==
    [][/\ (Dispatched /\ auth /\ last'.req.method = "auth.delete_session") =>
            LET sid == get_session_id(last'.req.cookie)
            IN  IF sid \in DOMAIN sessions
                THEN /\ last'.envelope = Envelope(last'.req.id, JBool(TRUE), NoError)
                     /\ DOMAIN sessions' = DOMAIN sessions \ {sid}
                     /\ \A other \in DOMAIN sessions' : sessions'[other] = sessions[other]
                     /\ EffectiveLevel(sessions', last'.req.cookie) = AUTH_LEVEL_NONE
                ELSE /\ sessions' = sessions
                     /\ last'.envelope = Envelope(last'.req.id, JNull, NotAuthenticated)
       /\ \A sid \in issued \ DOMAIN sessions : sid \notin DOMAIN sessions'
      ]_vars

(* a session has been deleted by its owner while another one stays *)
C20_Witness ==
    /\ WasDispatched
    /\ last.req.method = "auth.delete_session"
    /\ last.envelope.result = JBool(TRUE)
    /\ get_session_id(last.req.cookie) \in issued
    /\ get_session_id(last.req.cookie) \notin DOMAIN sessions
    /\ DOMAIN sessions # {}

(* C21: for a caller without a session, the answer to a request for a       *)
(* registered method that needs a level above none and the answer to the    *)
(* same request for a method that is not registered carry the same error    *)
(* (code and message).                                                      *)
C21_Original ==
    [][(/\ Dispatched /\ auth
        /\ last'.req.method \in DOMAIN local_methods
        /\ local_methods[last'.req.method].json_auth_level > AUTH_LEVEL_NONE
        /\ EffectiveLevel(sessions, last'.req.cookie) = AUTH_LEVEL_NONE) =>
        \A salt \in Salts :
            handle_request(local_methods, auth, sessions, config, now,
                           [last'.req EXCEPT !.method = "nonexistent.op", !.params = <<>>],
                           None, salt).error = last'.envelope.error
      ]_vars

(* the privilege levels of auth.py *)
Levels == {AUTH_LEVEL_NONE, AUTH_LEVEL_READONLY, AUTH_LEVEL_NORMAL, AUTH_LEVEL_ADMIN}

(* C22: auth.change_password requires the admin level: check_request       *)
(* rejects with AuthError (error code 1) every caller whose level is below  *)
(* admin.                                                                   *)
C22_Original ==
    auth =>
        /\ local_methods["auth.change_password"].json_auth_level = AUTH_LEVEL_ADMIN
        /\ \A l \in Levels :
              l < AUTH_LEVEL_ADMIN =>
                  CheckLevel(sessions, <<>>, local_methods["auth.change_password"], l, None).raised
                      = Exc("AuthError", "Not authenticated")

(* C23: under the fairness of the sweep timer, a session whose expires has  *)
(* passed is eventually removed from the table unless a request presenting  *)
(* its cookie renews it first, so a session no request presents any more    *)
(* is removed; and a session id that has left the table never comes back.   *)
C23_AbandonedSessionsSwept ==
    /\ \A sid \in SessionIds :
          (sid \in DOMAIN sessions /\ sessions[sid].expires < now)
              ~> (sid \notin DOMAIN sessions \/ sessions[sid].expires >= now)
    /\ [][\A sid \in issued \ DOMAIN sessions : sid \notin DOMAIN sessions']_vars

(* the sweep has emptied the table of the sessions it once held *)
C23_Witness ==
    /\ last.callback = "_clean_sessions"
    /\ last.removed # {}
    /\ last.removed \subseteq issued
    /\ DOMAIN sessions = {}

(* C24: a check_request whose cookie names a session whose expires has      *)
(* passed does not extend it and evicts it from the table at that lookup.   *)
C24_Original ==
    [][(/\ Dispatched /\ auth
        /\ last'.req.method \in DOMAIN local_methods
        /\ ExpiredId(sessions, now, last'.req.cookie)) =>
        /\ get_session_id(last'.req.cookie) \notin DOMAIN sessions'
        /\ last'.cookies = <<>>
      ]_vars

(* C25: whatever the order of requests and sweeps, with a clock that does   *)
(* not go back and one session_timeout, the expires of a session that       *)
(* stays in the table never decreases.                                      *)
C25_ExpiresNeverDecreases ==
    [][\A sid \in DOMAIN sessions \cap DOMAIN sessions' :
          sessions'[sid].expires >= sessions[sid].expires
      ]_vars

(* two sessions are in the table; a request for another method than login   *)
(* has just renewed one of them, after the clock has moved, and the other   *)
(* one expires earlier                                                      *)
C25_Witness ==
    /\ WasDispatched
    /\ last.req.method = "core.status"
    /\ now > 0
    /\ last.ctx.session_id \in DOMAIN sessions
    /\ sessions[last.ctx.session_id].expires = now + config["session_timeout"]
    /\ \E other \in DOMAIN sessions :
          sessions[other].expires < sessions[last.ctx.session_id].expires

(* the methods exported without an explicit level: '@export' on             *)
(* change_password, delete_session and fetch, '@export()' on info           *)
NoExplicitLevel ==
    {"auth.change_password", "auth.delete_session", "core.fetch", "core.info"}

(* C26: a method exported without an explicit level, by '@export' or by     *)
(* '@export()', requires the default level (normal): a caller at level      *)
(* normal or above is authorized and the method runs, a caller below it is  *)
(* rejected with error code 1.                                              *)
C26_Original ==
    [][(/\ Rendered /\ auth
        /\ last'.req.verb = "POST" /\ last'.req.body = "json"
        /\ last'.req.method \in DOMAIN local_methods \cap NoExplicitLevel) =>
        /\ local_methods[last'.req.method].json_auth_level = AUTH_LEVEL_NORMAL
        /\ IF EffectiveLevel(sessions, last'.req.cookie) >= AUTH_LEVEL_NORMAL
           THEN last'.trace = <<"check_request", last'.req.method>>
           ELSE last'.envelope = Envelope(last'.req.id, JNull, NotAuthenticated)
      ]_vars

----------------------------------------------------------------------------
(* The cookie value on its own: _create_session draws one id, issues its    *)
(* cookie, and get_session_id decodes a cookie value a client sends back,   *)
(* the issued one or one whose id part was changed.                         *)

(* the characters of a hexdigest: 0-9 and a-f *)
HexChars == (48..57) \cup (97..102)

(* hexdigests of IdLen characters: k times one character, then another one  *)
(* to the end; from "00...0" (the least checksum) to "ff...f" (the greatest) *)
HexIds ==
    {[i \in 1..IdLen |-> IF i <= k THEN c1 ELSE c2] :
        c1 \in HexChars, c2 \in HexChars, k \in 0..IdLen}

Reverse(s) == [i \in 1..Len(s) |-> s[Len(s) + 1 - i]]

(* ids a client can put in place of the id of its cookie: the id read       *)
(* backwards, and the id with another first character                      *)
Tamperings(id) ==
    ({Reverse(id)} \cup {[id EXCEPT ![1] = c] : c \in {48, 102}}) \ {id}

ChecksumInit ==
    /\ now = 0
    /\ auth = TRUE
    /\ sessions = [k \in {} |-> 0]
    /\ config = [k \in {} |-> 0]
    /\ local_methods = NoMethods
    /\ issued \in {{id} : id \in HexIds}
    /\ pending = {}
    /\ request_global = NoGlobal
    /\ manager = EventManager
    /\ listened = {}
    /\ last = NoLast

(* _create_session: the cookie of the id drawn *)
issue_cookie ==
    /\ Idle
    /\ \E id \in issued :
          last' = [NoLast EXCEPT !.callback = "_create_session",
                                 !.cookies = <<Cookie(CookieValue(id), 0)>>]
    /\ UNCHANGED <<now, auth, sessions, config, local_methods, issued, pending,
                   request_global, manager, listened>>

(* check_request's first line: get_session_id of the cookie value a         *)
(* request carries                                                          *)
decode_cookie(value) ==
    /\ last.callback = "_create_session"
    /\ last' = [NoLast EXCEPT
                  !.callback = "get_session_id",
                  !.req = [NoRequest EXCEPT !.cookie = value],
                  !.ctx = Ctx(AUTH_LEVEL_NONE, get_session_id(value))]
    /\ UNCHANGED <<now, auth, sessions, config, local_methods, issued, pending,
                   request_global, manager, listened>>

ChecksumNext ==
    \/ issue_cookie
    \/ \E id \in issued : decode_cookie(CookieValue(id))
    \/ \E id \in issued : \E other \in Tamperings(id) :
          decode_cookie(other \o Str(make_checksum(id).value))

ChecksumSpec == ChecksumInit /\ [][ChecksumNext]_vars

(* C27: for every id _create_session can draw (32 lowercase hexadecimal     *)
(* characters) the checksum has exactly four decimal digits, the cookie     *)
(* issued is the id followed by them, and get_session_id of that cookie     *)
(* value is the id.                                                         *)
C27_CookieDecodes ==
    \A id \in issued :
        /\ Len(Str(make_checksum(id).value)) = 4
        /\ last.callback = "_create_session" =>
              /\ Len(last.cookies[1].value) = IdLen + 4
              /\ last.cookies[1].value = id \o Str(make_checksum(id).value)
        /\ (/\ last.callback = "get_session_id"
            /\ last.req.cookie = id \o Str(make_checksum(id).value)) =>
              last.ctx.session_id = id

(* the cookie of "ff...f", whose checksum is the greatest, has been decoded *)
C27_Witness ==
    /\ last.callback = "get_session_id"
    /\ last.ctx.session_id \in issued
    /\ last.ctx.session_id = [i \in 1..IdLen |-> 102]
    /\ last.req.cookie = last.ctx.session_id \o Str(IdLen * 102)

(* C28: a changed id is detected by the checksum alone: for every cookie    *)
(* value made from an issued cookie by changing its id part and keeping     *)
(* the checksum suffix, get_session_id returns None.                        *)
C28_Original ==
    \A id \in issued :
        (/\ last.callback = "get_session_id"
         /\ last.req.cookie # id \o Str(make_checksum(id).value)) =>
            last.ctx.session_id = None

(* C29: however the requests in flight interleave, a method that waited     *)
(* for a pending result and goes on reads through __request__ the request   *)
(* whose dispatch called it, never another one.                             *)
C29_Original ==
    last.callback \in {"callback", "errback"} => last.seen.id = last.req.id

(* C30: every session in the table was put there by an auth.login whose     *)
(* password verified: no other step adds one; and a caller that presents    *)
(* no live session (no cookie, a bad checksum, an id that is not in the     *)
(* table, a session whose expires has passed) has effective level none.     *)
C30_Original ==
    [][/\ (DOMAIN sessions' \ DOMAIN sessions # {}) =>
              /\ Dispatched /\ auth
              /\ last'.req.method = "auth.login"
              /\ Len(last'.req.params) = 1
              /\ Verifies(config, last'.req.params[1])
              /\ last'.envelope.result = JBool(TRUE)
              /\ Cardinality(DOMAIN sessions' \ DOMAIN sessions) = 1
       /\ (/\ Dispatched /\ auth /\ last'.req.method \in DOMAIN local_methods
           /\ ~LiveId(sessions, now, last'.req.cookie)) =>
              last'.ctx.auth_level = AUTH_LEVEL_NONE
      ]_vars

----------------------------------------------------------------------------
(* The EventManager on its own: nothing else of the package uses it. Its    *)
(* methods are called by the application, one at a time.                    *)

EventInit ==
    /\ now = 0
    /\ auth = TRUE
    /\ sessions = [k \in {} |-> 0]
    /\ config = [k \in {} |-> 0]
    /\ local_methods = NoMethods
    /\ issued = {}
    /\ pending = {}
    /\ request_global = NoGlobal
    /\ manager = EventManager
    /\ listened = {}
    /\ last = NoLast

(* what a call of a method of the EventManager leaves to see *)
Observed(method, l, e, args, returned, raised) ==
    [NoLast EXCEPT !.callback = method,
                   !.call = [listener |-> l, event |-> e, args |-> args,
                             returned |-> returned],
                   !.raised = raised]

(* add_listener: for an event that has no listener yet, _add_listener (which *)
(* does nothing) is called and the line that stores on_event raises         *)
(* NameError before the listener is stored                                  *)
add_listener(l, e) ==
    /\ Idle
    /\ IF e \notin DOMAIN manager.events
       THEN IF ~HasOnEvent
            THEN /\ manager' = manager
                 /\ last' = Observed("add_listener", l, e, <<>>, JNull,
                               Exc("NameError", "global name 'on_event' is not defined"))
            ELSE /\ manager' = [manager EXCEPT !.handlers = Put(@, e, "on_event"),
                                               !.events = Put(@, e, <<l>>)]
                 /\ last' = Observed("add_listener", l, e, <<>>, JNull, NoExc)
       ELSE /\ manager' = IF InList(l, manager.events[e]) THEN manager
                          ELSE [manager EXCEPT !.events[e] = Append(@, l)]
            /\ last' = Observed("add_listener", l, e, <<>>, JNull, NoExc)
    /\ listened' = listened \cup {<<l, e>>}
    /\ UNCHANGED <<now, auth, sessions, config, local_methods, issued, pending,
                   request_global>>

(* fire_event: self.__events[event] raises KeyError for an event that has   *)
(* no listener                                                              *)
fire_event(e, args) ==
    /\ Idle
    /\ IF e \notin DOMAIN manager.events
       THEN /\ manager' = manager
            /\ last' = Observed("fire_event", "", e, args, JNull, Exc("KeyError", e))
       ELSE /\ manager' = [manager EXCEPT
                             !.queue = Appended(@, manager.events[e], <<e, args>>)]
            /\ last' = Observed("fire_event", "", e, args, JNull, NoExc)
    /\ UNCHANGED <<now, auth, sessions, config, local_methods, issued, pending,
                   request_global, listened>>

(* get_events: the queue of the listener, which is deleted, or None *)
get_events(l) ==
    /\ Idle
    /\ IF l \in DOMAIN manager.queue
       THEN /\ manager' = [manager EXCEPT !.queue = Del(@, l)]
            /\ last' = Observed("get_events", l, "", <<>>,
                                EventList(manager.queue[l]), NoExc)
       ELSE /\ manager' = manager
            /\ last' = Observed("get_events", l, "", <<>>, JNull, NoExc)
    /\ UNCHANGED <<now, auth, sessions, config, local_methods, issued, pending,
                   request_global, listened>>

(* remove_listener *)
remove_listener(l, e) ==
    /\ Idle
    /\ IF e \notin DOMAIN manager.events
       THEN /\ manager' = manager
            /\ last' = Observed("remove_listener", l, e, <<>>, JNull, Exc("KeyError", e))
       ELSE IF ~InList(l, manager.events[e])
       THEN /\ manager' = manager
            /\ last' = Observed("remove_listener", l, e, <<>>, JNull,
                                Exc("ValueError", "list.remove(x): x not in list"))
       ELSE /\ manager' =
                 IF Removed(l, manager.events[e]) = <<>>
                 THEN [manager EXCEPT !.events = Del(@, e), !.handlers = Del(@, e)]
                 ELSE [manager EXCEPT !.events[e] = Removed(l, @)]
            /\ last' = Observed("remove_listener", l, e, <<>>, JNull, NoExc)
    /\ listened' = listened \ {<<l, e>>}
    /\ UNCHANGED <<now, auth, sessions, config, local_methods, issued, pending,
                   request_global>>

EventNext ==
    \/ \E l \in Listeners, e \in Events : add_listener(l, e)
    \/ \E e \in Events, args \in EventArgs : fire_event(e, args)
    \/ \E l \in Listeners : get_events(l)
    \/ \E l \in Listeners, e \in Events : remove_listener(l, e)
    \/ finish

EventSpec == EventInit /\ [][EventNext]_vars

(* C31: once add_listener(l, e) has been called, every fire_event(e, args)  *)
(* appends (e, args) to the pending events of l; get_events(l) returns all  *)
(* the pending events of l in the order they were fired and leaves none     *)
(* pending, so that each is returned exactly once; with none pending it     *)
(* returns None.                                                            *)
C31_Original ==
    [][/\ (Idle /\ last'.callback = "fire_event") =>
              \A l \in Listeners :
                  <<l, last'.call.event>> \in listened =>
                      QueueOf(manager', l) =
                          Append(QueueOf(manager, l),
                                 <<last'.call.event, last'.call.args>>)
       /\ (Idle /\ last'.callback = "get_events") =>
              /\ last'.call.returned =
                    IF QueueOf(manager, last'.call.listener) = <<>> THEN JNull
                    ELSE EventList(QueueOf(manager, last'.call.listener))
              /\ QueueOf(manager', last'.call.listener) = <<>>
      ]_vars

====
